---------------------------- MODULE Spec2Model ----------------------------
(***************************************************************************)
(* Akash Autopilot: the plan validator (src/agent/policy.py), the policy   *)
(* guardrails (src/agent/policy.py), the ledger store (src/database/db.py) *)
(* and the agent loop (src/agent/loop.py) as one state machine.            *)
(*                                                                         *)
(* Time is counted in whole hours.  JSON values are tagged records, Python *)
(* None is the string "None".                                              *)
(***************************************************************************)
EXTENDS Integers, Sequences, FiniteSets, TLC

VARIABLES
    now,            \* datetime.utcnow(), in hours since the process started
    settings,       \* src/config.py Settings, read once at start-up
    ledger,         \* table action_ledger, row i has id i
    cooldowns,      \* table cooldowns, in insertion order
    pc,             \* the await at which the run_loop task is suspended
    running,        \* AutopilotAgent.running
    dbOpen,         \* AutopilotDB.conn is open
    stop,           \* lifespan: "none", or "shutdown" once agent.shutdown() has run
    actions,        \* _execute_loop_iteration: the sanitized actions still to run
    cur,            \* _execute_action: action_id of the action in progress, 0 if none
    verdict,        \* _execute_action: (is_allowed, reason) of the action in progress
    outcome,        \* _execute_action: (success, error) of the action in progress
    iter,           \* history: what the current iteration was given and started from
    calls,          \* history: the external action calls made, with their time
    loop_count,     \* AutopilotAgent.loop_count
    last_loop_time, \* AutopilotAgent.last_loop_time
    applied,        \* history: the cooldowns apply_cooldown has written
    deployments,    \* table deployment_state, the row updated last comes first
    listed,         \* fetch client: what list_deployments answered last
    fetched,        \* fetch client: what _fetch_deployments returned last
    lastWrite,      \* ledger client: the last call that wrote action_ledger
    doc,            \* validator client: the document under validation
    checked,        \* validator client: the answers validate_action_plan gave for doc
    sanitized       \* validator client: sanitize_action_plan(doc), once computed

vars == <<now, settings, ledger, cooldowns, pc, running, dbOpen, stop,
          actions, cur, verdict, outcome, iter, calls, loop_count, last_loop_time, applied,
          deployments, listed, fetched, lastWrite, doc, checked, sanitized>>

statusVars == <<loop_count, last_loop_time>>

loopVars == <<pc, running, dbOpen, stop, actions, cur, verdict, outcome, iter, calls,
              statusVars>>
planVars == <<doc, checked, sanitized>>
fetchVars == <<listed, fetched>>
clientVars == <<planVars, fetchVars, lastWrite>>

-----------------------------------------------------------------------------
(* Bounds of the model *)

MaxPlanLen == 2         \* entries in a plan
MaxLedger == 2          \* rows of action_ledger
MaxCooldowns == 2       \* rows of cooldowns
MaxHourOfDay == 2       \* the clock advances hour by hour up to this hour of a day
MaxDays == 1            \* and day by day up to this day
MaxListing == 2         \* deployments in one answer of list_deployments
MaxLoops == 2           \* iterations counted by loop_count

-----------------------------------------------------------------------------
(* JSON documents as the recommender can return them *)

None == "None"

JNull == [k |-> "null"]
JInt(n) == [k |-> "int", n |-> n]
JStr(s) == [k |-> "str", s |-> s]
JList(items) == [k |-> "list", items |-> items]
JDict(f) == [k |-> "dict", f |-> f]

IsDict(v) == v.k = "dict"
IsList(v) == v.k = "list"
\* key in d, for a JSON mapping d
HasKey(d, key) == key \in DOMAIN d.f
\* d.get(key), None as JNull
Get(d, key) == IF HasKey(d, key) THEN d.f[key] ELSE JNull
\* variant: None counts as true
TruthyOrNone(v) ==
    CASE v.k = "null" -> TRUE
      [] v.k = "int" -> v.n # 0
      [] v.k = "str" -> v.s # ""
      [] v.k = "list" -> Len(v.items) > 0
      [] v.k = "dict" -> DOMAIN v.f # {}

\* Python's truth value of a JSON value (`if not action_plan`)
Truthy(v) ==
    CASE v.k = "null" -> FALSE
      [] v.k = "int" -> v.n # 0
      [] v.k = "str" -> v.s # ""
      [] v.k = "list" -> Len(v.items) > 0
      [] v.k = "dict" -> DOMAIN v.f # {}
\* hash(v) succeeds: lists and mappings are unhashable
Hashable(v) == v.k \notin {"list", "dict"}

\* all sequences over S of length at most n
SeqUpTo(S, n) == UNION {[1..m -> S] : m \in 0..n}

\* a field left out of a mapping when an entry is built
Absent == [k |-> "absent"]

\* the plan entry {type: t, deployment_id: d, new_count: n, reason: r}, without the
\* fields given as Absent
MkEntry(t, d, n, r) ==
    LET given == [type |-> t, deployment_id |-> d, new_count |-> n, reason |-> r]
        keys == {key \in DOMAIN given : given[key] # Absent}
    IN  JDict([key \in keys |-> given[key]])

\* the plan {"actions": items}
MkPlan(items) == JDict([actions |-> JList(items)])

-----------------------------------------------------------------------------
(* ActionValidator, src/agent/policy.py *)

VALID_ACTION_TYPES == {"scale", "redeploy", "no_action"}

Ok == [kind |-> "ok"]
Rejected(msg, i, field) == [kind |-> "rejected", msg |-> msg, i |-> i, field |-> field]
Raised(exc) == [kind |-> "raised", exc |-> exc]

\* action_type in VALID_ACTION_TYPES, for a hashable action_type
InValidTypes(t) == t.k = "str" /\ t.s \in VALID_ACTION_TYPES

\* variant: a scale entry is only required to carry a deployment_id
ValidateEntryWithoutNewCount(action, i) ==
    IF ~IsDict(action) THEN Rejected("Action {i} must be a dictionary", i, None)
    ELSE IF ~HasKey(action, "type") THEN Rejected("Action {i} missing 'type' field", i, "type")
    ELSE LET action_type == action.f["type"] IN
         IF ~Hashable(action_type) THEN Raised("TypeError")
         ELSE IF ~InValidTypes(action_type)
              THEN Rejected("Invalid action type: '{action_type}'", i, "type")
         ELSE IF action_type.s \in {"scale", "redeploy"} /\ ~HasKey(action, "deployment_id")
              THEN Rejected("{type} action {i} missing 'deployment_id'", i, "deployment_id")
         ELSE [kind |-> "next"]

\* the body of the for loop of validate_action_plan on entry i (0-based); "next"
\* when the entry passes
ValidateEntry(action, i) ==
    IF ~IsDict(action) THEN Rejected("Action {i} must be a dictionary", i, None)
    ELSE IF ~HasKey(action, "type") THEN Rejected("Action {i} missing 'type' field", i, "type")
    ELSE LET action_type == action.f["type"] IN
         IF ~Hashable(action_type) THEN Raised("TypeError")
         ELSE IF ~InValidTypes(action_type)
              THEN Rejected("Invalid action type: '{action_type}'", i, "type")
         ELSE IF action_type.s = "scale" /\ ~HasKey(action, "deployment_id")
              THEN Rejected("Scale action {i} missing 'deployment_id'", i, "deployment_id")
         ELSE IF action_type.s = "scale" /\ ~HasKey(action, "new_count")
              THEN Rejected("Scale action {i} missing 'new_count'", i, "new_count")
         ELSE IF action_type.s = "redeploy" /\ ~HasKey(action, "deployment_id")
              THEN Rejected("Redeploy action {i} missing 'deployment_id'", i, "deployment_id")
         ELSE [kind |-> "next"]

RECURSIVE ValidateFrom(_, _)
ValidateFrom(items, i) ==
    IF i > Len(items) THEN Ok
    ELSE LET r == ValidateEntry(items[i], i - 1) IN
         IF r.kind = "next" THEN ValidateFrom(items, i + 1) ELSE r

validate_action_plan(action_plan) ==
    IF ~IsDict(action_plan) THEN Rejected("Action plan must be a dictionary", 0, None)
    ELSE IF ~HasKey(action_plan, "actions")
         THEN Rejected("Action plan must contain 'actions' key", 0, "actions")
    ELSE IF ~IsList(action_plan.f["actions"])
         THEN Rejected("'actions' must be a list", 0, "actions")
    ELSE ValidateFrom(action_plan.f["actions"].items, 1)

DEFAULT_REASON == JStr("LLM recommendation")

\* action.get("reason", "LLM recommendation")
GetReason(action) == IF HasKey(action, "reason") THEN action.f["reason"] ELSE DEFAULT_REASON

\* the sanitized_action built from one entry that is not skipped
SanitizeEntry(action) ==
    LET t == action.f["type"] IN
    [type |-> t,
     deployment_id |-> Get(action, "deployment_id"),
     details |-> IF t = JStr("scale")
                 THEN [new_count |-> Get(action, "new_count"), reason |-> GetReason(action)]
                 ELSE IF t = JStr("redeploy")
                 THEN [reason |-> GetReason(action)]
                 ELSE <<>>]

RECURSIVE SanitizeFrom(_, _)
SanitizeFrom(items, i) ==
    IF i > Len(items) THEN <<>>
    ELSE IF Get(items[i], "type") = JStr("no_action") THEN SanitizeFrom(items, i + 1)
    ELSE <<SanitizeEntry(items[i])>> \o SanitizeFrom(items, i + 1)

\* variant: the no_action entries are not skipped
sanitize_keeping_no_action(action_plan) ==
    IF ~IsDict(action_plan) THEN Raised("AttributeError")
    ELSE IF ~HasKey(action_plan, "actions") THEN [kind |-> "list", items |-> <<>>]
    ELSE LET a == action_plan.f["actions"] IN
         IF ~IsList(a) THEN Raised("TypeError")
         ELSE IF \E i \in 1..Len(a.items) : ~IsDict(a.items[i]) THEN Raised("AttributeError")
         ELSE IF \E i \in 1..Len(a.items) : ~HasKey(a.items[i], "type") THEN Raised("KeyError")
         ELSE [kind |-> "list",
               items |-> [i \in 1..Len(a.items) |-> SanitizeEntry(a.items[i])]]

\* sanitize_action_plan on a plan whose entries are mappings with a type, as every
\* plan that passed validate_action_plan is; Raised otherwise
sanitize_action_plan(action_plan) ==
    IF ~IsDict(action_plan) THEN Raised("AttributeError")
    ELSE IF ~HasKey(action_plan, "actions") THEN [kind |-> "list", items |-> <<>>]
    ELSE LET a == action_plan.f["actions"] IN
         IF ~IsList(a) THEN Raised("TypeError")
         ELSE IF \E i \in 1..Len(a.items) : ~IsDict(a.items[i]) THEN Raised("AttributeError")
         ELSE IF \E i \in 1..Len(a.items) : ~HasKey(a.items[i], "type") THEN Raised("KeyError")
         ELSE [kind |-> "list", items |-> SanitizeFrom(a.items, 1)]

-----------------------------------------------------------------------------
(* Time: datetime.utcnow(), timedelta and isoformat() *)

Hour == 1               \* timedelta(hours=1), in hours
Day == 24               \* timedelta(days=1), in hours
SecondsPerHour == 3600

\* timedelta(seconds=n), in hours
Seconds(n) == n \div SecondsPerHour

\* t.isoformat() at the resolution of the clock: <<date, hour of the day>>
isoformat(t) == <<t \div Day, t % Day>>

\* datetime.fromisoformat(s), the time an isoformat string stands for
fromisoformat(s) == s[1] * Day + s[2]

\* a < b for two isoformat strings (SQLite compares TEXT columns left to right)
TextLess(a, b) == a[1] < b[1] \/ (a[1] = b[1] /\ a[2] < b[2])
TextLeq(a, b) == a = b \/ TextLess(a, b)

-----------------------------------------------------------------------------
(* AutopilotDB, src/database/db.py *)

\* Python's truth value of an Optional[str] argument
Given(s) == s \notin {None, ""}

\* json.dumps(v): the text of v, told apart from v itself
json_dumps(v) == [json |-> v]

\* the row log_action inserts
LedgerRow(action_type, deployment_id, details, status, error) ==
    [timestamp |-> isoformat(now), action_type |-> action_type,
     deployment_id |-> deployment_id,
     details |-> IF details = <<>> THEN None ELSE json_dumps(details),
     status |-> status, error |-> error]

\* action_ledger after log_action; the new row's id is its index
log_action(action_type, deployment_id, details, status, error) ==
    Append(ledger, LedgerRow(action_type, deployment_id, details, status, error))

\* action_ledger after update_action_status
update_action_status(action_id, status, error) ==
    [i \in 1..Len(ledger) |->
        IF i = action_id THEN [ledger[i] EXCEPT !.status = status, !.error = error]
        ELSE ledger[i]]

\* row i of action_ledger as SELECT * returns it
RowWithId(i) ==
    [id |-> i, timestamp |-> ledger[i].timestamp,
     action_type |-> ledger[i].action_type,
     deployment_id |-> ledger[i].deployment_id, details |-> ledger[i].details,
     status |-> ledger[i].status, error |-> ledger[i].error]

\* ORDER BY timestamp DESC: row i comes before row j.  Two rows written within one
\* hour of the model carry different timestamps, the later row the later one: the
\* clock counts microseconds and each write commits before the next begins.
Before(i, j) ==
    \/ TextLess(ledger[j].timestamp, ledger[i].timestamp)
    \/ ledger[j].timestamp = ledger[i].timestamp /\ j < i

\* variant: ORDER BY timestamp ASC
get_oldest_actions(limit) ==
    LET n == IF limit < Len(ledger) THEN limit ELSE Len(ledger) IN
    [k \in 1..n |->
        RowWithId(CHOOSE i \in 1..Len(ledger) :
            Cardinality({j \in 1..Len(ledger) : Before(i, j)}) = k - 1)]

\* SELECT * FROM action_ledger ORDER BY timestamp DESC LIMIT ?: row k of the answer
\* is the row that k - 1 rows come before
get_recent_actions(limit) ==
    LET n == IF limit < Len(ledger) THEN limit ELSE Len(ledger) IN
    [k \in 1..n |->
        RowWithId(CHOOSE i \in 1..Len(ledger) :
            Cardinality({j \in 1..Len(ledger) : Before(j, i)}) = k - 1)]

\* variant: counts only the rows of actions that completed
count_completed_since(since, action_type) ==
    Cardinality({i \in 1..Len(ledger) :
        /\ TextLeq(isoformat(since), ledger[i].timestamp)
        /\ (Given(action_type) => ledger[i].action_type = action_type)
        /\ ledger[i].status = "completed"})

\* SELECT COUNT(*) FROM action_ledger WHERE timestamp >= ? [AND action_type = ?]
count_actions_since(since, action_type) ==
    Cardinality({i \in 1..Len(ledger) :
        /\ TextLeq(isoformat(since), ledger[i].timestamp)
        /\ (Given(action_type) => ledger[i].action_type = action_type)})

\* cooldowns after set_cooldown
set_cooldown(action_type, cooldown_seconds, deployment_id) ==
    Append(cooldowns, [action_type |-> action_type, deployment_id |-> deployment_id,
                       expires_at |-> isoformat(now + Seconds(cooldown_seconds))])

\* the rows check_cooldown counts
CooldownMatches(action_type, deployment_id) ==
    {i \in 1..Len(cooldowns) :
        /\ cooldowns[i].action_type = action_type
        /\ (Given(deployment_id) => cooldowns[i].deployment_id = deployment_id)
        /\ TextLess(isoformat(now), cooldowns[i].expires_at)}

\* variant: a row still counts at the instant it expires
check_cooldown_inclusive(action_type, deployment_id) ==
    \E i \in 1..Len(cooldowns) :
        /\ cooldowns[i].action_type = action_type
        /\ (Given(deployment_id) => cooldowns[i].deployment_id = deployment_id)
        /\ TextLeq(isoformat(now), cooldowns[i].expires_at)

\* variant: the rows of every deployment count
check_cooldown_of_type(action_type, deployment_id) ==
    \E i \in 1..Len(cooldowns) :
        /\ cooldowns[i].action_type = action_type
        /\ TextLess(isoformat(now), cooldowns[i].expires_at)

\* variant: the deployment column is always compared, an omitted id matches a NULL
check_cooldown_of_pair(action_type, deployment_id) ==
    \E i \in 1..Len(cooldowns) :
        /\ cooldowns[i].action_type = action_type
        /\ cooldowns[i].deployment_id = (IF Given(deployment_id) THEN deployment_id ELSE None)
        /\ TextLess(isoformat(now), cooldowns[i].expires_at)

\* SELECT COUNT(*) FROM cooldowns WHERE ... AND expires_at > now, > 0
check_cooldown(action_type, deployment_id) ==
    Cardinality(CooldownMatches(action_type, deployment_id)) > 0

RECURSIVE DeleteExpired(_)
\* DELETE FROM cooldowns WHERE expires_at <= now, on the rows in order
DeleteExpired(rows) ==
    IF rows = <<>> THEN <<>>
    ELSE (IF TextLeq(Head(rows).expires_at, isoformat(now)) THEN <<>> ELSE <<Head(rows)>>)
         \o DeleteExpired(Tail(rows))

\* variant: the cleanup empties the table
cleanup_every_cooldown == <<>>

\* cooldowns after cleanup_expired_cooldowns
cleanup_expired_cooldowns == DeleteExpired(cooldowns)

\* the rows of table t other than the one of deployment_id
RowsOtherThan(t, deployment_id) ==
    SelectSeq(t, LAMBDA row : row.deployment_id # deployment_id)

\* variant: a plain INSERT, the row of the same id stays
insert_deployment_state(t, deployment_id, name, status, replicas, metrics) ==
    <<[deployment_id |-> deployment_id, name |-> name, status |-> status,
       replicas |-> replicas,
       metrics |-> IF metrics = <<>> THEN None ELSE json_dumps(metrics)]>> \o t

\* update_deployment_state on table t: INSERT ... ON CONFLICT(deployment_id) DO UPDATE.
\* The row gets updated_at = now, later than every row written before, so it is
\* placed first.
update_deployment_state(t, deployment_id, name, status, replicas, metrics) ==
    <<[deployment_id |-> deployment_id, name |-> name, status |-> status,
       replicas |-> replicas,
       metrics |-> IF metrics = <<>> THEN None ELSE json_dumps(metrics)]>>
    \o RowsOtherThan(t, deployment_id)

\* get_all_deployments: SELECT * FROM deployment_state ORDER BY updated_at DESC
get_all_deployments == deployments

\* no row: fetchone() returned None
NoRow == [deployment_id |-> None]

\* get_deployment_state: SELECT * FROM deployment_state WHERE deployment_id = ?
get_deployment_state(deployment_id) ==
    IF \E r \in 1..Len(deployments) : deployments[r].deployment_id = deployment_id
    THEN deployments[CHOOSE r \in 1..Len(deployments) :
                        deployments[r].deployment_id = deployment_id]
    ELSE NoRow

-----------------------------------------------------------------------------
(* AutopilotAgent._fetch_deployments, src/agent/loop.py *)

\* d.get(key, default) on a mapping d
DictGet(d, key, default) == IF key \in DOMAIN d THEN d[key] ELSE default

\* the loop of _get_replica_count over the services named in names
RECURSIVE SumReplicas(_, _, _)
SumReplicas(services, names, default) ==
    IF names = {} THEN 0
    ELSE LET service_name == CHOOSE n \in names : TRUE IN
         DictGet(services[service_name], "replicas", default)
         + SumReplicas(services, names \ {service_name}, default)

\* replicas counted only where a service declares them
count_declared_replicas(deployment) ==
    LET services == DictGet(deployment, "services", <<>>) IN
    SumReplicas(services, DOMAIN services, 0)

\* _get_replica_count(deployment)
_get_replica_count(deployment) ==
    LET services == DictGet(deployment, "services", <<>>) IN
    SumReplicas(services, DOMAIN services, 1)

\* the fields _fetch_deployments extracts from one deployment of the API
Extracted(dep) ==
    [deployment_id |-> DictGet(dep, "dseq", DictGet(dep, "id", "unknown")),
     name |-> DictGet(dep, "name", "unnamed"),
     status |-> DictGet(dep, "status", "unknown"),
     replicas |-> _get_replica_count(dep),
     metrics |-> DictGet(dep, "metrics", <<>>)]

\* what list_deployments returns: None, or the list of the deployments
NoAnswer == [k |-> "none"]
Listing(items) == [k |-> "list", items |-> items]

\* the for loop of _fetch_deployments from dep i on: the table after the upserts
RECURSIVE UpsertFrom(_, _, _)
UpsertFrom(t, api_deployments, i) ==
    IF i > Len(api_deployments) THEN t
    ELSE LET e == Extracted(api_deployments[i]) IN
         UpsertFrom(update_deployment_state(t, e.deployment_id, e.name, e.status,
                                            e.replicas, e.metrics),
                    api_deployments, i + 1)

\* `not api_deployments`: the client answered None or an empty list
NoListing(api_deployments) ==
    api_deployments = NoAnswer \/ api_deployments = Listing(<<>>)

\* _fetch_deployments: the table it leaves behind
FetchedTable(api_deployments) ==
    IF NoListing(api_deployments) THEN deployments
    ELSE UpsertFrom(deployments, api_deployments.items, 1)

\* variant: nothing is returned when the client gave no listing
_fetch_deployments_or_nothing(api_deployments) ==
    IF NoListing(api_deployments) THEN <<>>
    ELSE [i \in 1..Len(api_deployments.items) |->
              Extracted(api_deployments.items[i])]

\* _fetch_deployments: the list it returns
_fetch_deployments(api_deployments) ==
    IF NoListing(api_deployments) THEN get_all_deployments
    ELSE [i \in 1..Len(api_deployments.items) |->
              Extracted(api_deployments.items[i])]

-----------------------------------------------------------------------------
(* PolicyGuardrails, src/agent/policy.py *)

Allowed == [kind |-> "verdict", allowed |-> TRUE, reason |-> None]
Denied(reason) == [kind |-> "verdict", allowed |-> FALSE, reason |-> reason]

\* variant: the limits are exceeded only above the ceiling
_check_rate_limits_above(action_type) ==
    LET count_hour == count_actions_since(now - Hour, action_type)
        count_day == count_actions_since(now - Day, action_type)
    IN  IF count_hour > settings.max_actions_per_hour THEN FALSE
        ELSE IF count_day > settings.max_actions_per_day THEN FALSE
        ELSE TRUE

\* variant: only the hourly window is checked
_check_rate_limits_hourly(action_type) ==
    LET count_hour == count_actions_since(now - Hour, action_type)
    IN  IF count_hour >= settings.max_actions_per_hour THEN FALSE
        ELSE TRUE

_check_rate_limits(action_type) ==
    LET count_hour == count_actions_since(now - Hour, action_type)
        count_day == count_actions_since(now - Day, action_type)
    IN  IF count_hour >= settings.max_actions_per_hour THEN FALSE
        ELSE IF count_day >= settings.max_actions_per_day THEN FALSE
        ELSE TRUE

\* details is the sanitized details mapping, <<>> when empty
\* variant: the maximum itself is refused
_validate_scale_action_below_max(details) ==
    IF DOMAIN details = {} THEN Denied("Scale action requires details")
    ELSE LET new_count == IF "new_count" \in DOMAIN details THEN details.new_count ELSE JNull IN
         IF new_count.k = "null" THEN Denied("Scale action requires new_count parameter")
         ELSE IF new_count.k # "int" THEN Raised("TypeError")
         ELSE IF new_count.n < 0 THEN Denied("Replica count cannot be negative")
         ELSE IF new_count.n >= 10 THEN Denied("Replica count too high: {new_count} (max: 10)")
         ELSE Allowed

_validate_scale_action(details) ==
    IF DOMAIN details = {} THEN Denied("Scale action requires details")
    ELSE LET new_count == IF "new_count" \in DOMAIN details THEN details.new_count ELSE JNull IN
         IF new_count.k = "null" THEN Denied("Scale action requires new_count parameter")
         ELSE IF new_count.k # "int" THEN Raised("TypeError")
         ELSE IF new_count.n < 0 THEN Denied("Replica count cannot be negative")
         ELSE IF new_count.n > 10 THEN Denied("Replica count too high: {new_count} (max: 10)")
         ELSE Allowed

\* variant: a deployment without a stored snapshot is refused
_validate_redeploy_of_known(deployment_id) ==
    IF ~Given(deployment_id) THEN Denied("Redeploy action requires deployment_id")
    ELSE IF get_deployment_state(deployment_id) = NoRow
    THEN Denied("Unknown deployment: {deployment_id}")
    ELSE Allowed

\* an unknown deployment is logged and allowed
_validate_redeploy_action(deployment_id) ==
    IF ~Given(deployment_id) THEN Denied("Redeploy action requires deployment_id")
    ELSE IF get_deployment_state(deployment_id) = NoRow THEN Allowed
    ELSE Allowed

\* variant: the cooldown is not looked at
validate_action_without_cooldown(action_type, deployment_id, details) ==
    IF ~_check_rate_limits(action_type)
    THEN Denied("Rate limit exceeded for {action_type}")
    ELSE IF action_type = "scale" THEN _validate_scale_action(details)
    ELSE IF action_type = "redeploy" THEN _validate_redeploy_action(deployment_id)
    ELSE Allowed

validate_action(action_type, deployment_id, details) ==
    IF ~_check_rate_limits(action_type)
    THEN Denied("Rate limit exceeded for {action_type}")
    ELSE IF check_cooldown(action_type, deployment_id)
    THEN Denied("Action {action_type} is in cooldown period")
    ELSE IF action_type = "scale" THEN _validate_scale_action(details)
    ELSE IF action_type = "redeploy" THEN _validate_redeploy_action(deployment_id)
    ELSE Allowed

\* the duration apply_cooldown looks up
CooldownSeconds(action_type) ==
    IF action_type = "scale" THEN settings.scale_cooldown_seconds
    ELSE IF action_type = "redeploy" THEN settings.redeploy_cooldown_seconds
    ELSE 3600

\* cooldowns after apply_cooldown
apply_cooldown(action_type, deployment_id) ==
    set_cooldown(action_type, CooldownSeconds(action_type), deployment_id)

-----------------------------------------------------------------------------
(* What the collaborators can answer *)

\* plan entries the recommender returns to the loop
LoopEntries ==
    {MkEntry(JStr("scale"), JStr("d1"), JInt(3), Absent),
     MkEntry(JStr("scale"), JStr("d1"), JStr("3"), Absent),
     MkEntry(JStr("scale"), JStr("d1"), JInt(11), Absent),
     MkEntry(JStr("redeploy"), JStr("d1"), Absent, Absent),
     MkEntry(JStr("no_action"), Absent, Absent, Absent),
     MkEntry(JStr("scale"), JStr("d1"), Absent, Absent),
     MkEntry(JList(<<>>), JStr("d1"), JInt(3), Absent)}

\* documents the recommender's reply parses to
LoopDocs ==
    {JList(<<>>), JDict(<<>>), JDict([reasoning |-> JStr("nothing to do")])}
    \cup {MkPlan(items) : items \in SeqUpTo(LoopEntries, MaxPlanLen)}

\* the recommender's reply: a transport error or unparsable payload, or a document
Responses == {[kind |-> "error"]} \cup {[kind |-> "doc", doc |-> d] : d \in LoopDocs}

\* AkashMLClient.get_decision: None on an error; the logging of
\* action_plan.get('reasoning') raises on a non-mapping, which is caught as an error
get_decision(response) ==
    IF response.kind = "error" THEN JNull
    ELSE IF ~IsDict(response.doc) THEN JNull
    ELSE response.doc

\* console_client.get_deployment as _execute_scale and _execute_redeploy see it
\* what list_deployments answers to the loop: None after a RequestException, or
\* the listing
LoopListings ==
    {NoAnswer,
     Listing(<<[dseq |-> "d1", name |-> "web-app", status |-> "active",
                services |-> [web |-> [replicas |-> 3], worker |-> <<>>]]>>)}

CallOutcomes == {"found", "not_found", "raises"}

\* (success, error) of the try block of _execute_action
Execute(action_type, call) ==
    IF action_type \notin {"scale", "redeploy"}
    THEN [success |-> FALSE, error |-> "Unknown action type: {action_type}"]
    ELSE IF call = "found" THEN [success |-> TRUE, error |-> None]
    ELSE IF call = "not_found" THEN [success |-> FALSE, error |-> None]
    ELSE [success |-> FALSE, error |-> "str(e)"]

\* a JSON string or null as a Python Optional[str]
Column(v) == IF v.k = "str" THEN v.s ELSE None

-----------------------------------------------------------------------------
(* AutopilotAgent.run_loop, src/agent/loop.py, and lifespan, src/api/server.py *)

NoVerdict == [kind |-> "none"]
NoOutcome == [success |-> FALSE, error |-> None]

\* awaits on the store
DbPcs == {"cleanup", "fetch", "log_invalid", "log_action", "validate",
          "update_blocked", "update_final", "cooldown"}

\* no iteration is in progress
\* no call has written the ledger yet
NoWrite == [op |-> "none", id |-> 0, status |-> "none", returned |-> 0]

NoIter == [rejected |-> FALSE, invalidEntry |-> FALSE, noActionPlan |-> FALSE,
           noResponse |-> FALSE, malformed |-> FALSE,
           fetchFailed |-> FALSE, current |-> <<>>,
           entries |-> 0, ledger0 |-> 0, calls0 |-> 0, applied0 |-> 0]

IterStart == [rejected |-> FALSE, invalidEntry |-> FALSE, noActionPlan |-> FALSE,
              noResponse |-> FALSE, malformed |-> FALSE,
              fetchFailed |-> FALSE, current |-> <<>>,
              entries |-> 0, ledger0 |-> Len(ledger), calls0 |-> Len(calls),
              applied0 |-> Len(applied)]

\* the document is a mapping that holds a list under actions
HasActionsList(d) == IsDict(d) /\ HasKey(d, "actions") /\ IsList(d.f["actions"])

\* the plan is a mapping whose actions are a list of no_action entries only
AllNoAction(plan) ==
    /\ IsDict(plan) /\ HasKey(plan, "actions") /\ IsList(plan.f["actions"])
    /\ \A i \in 1..Len(plan.f["actions"].items) :
        LET e == plan.f["actions"].items[i] IN
        IsDict(e) /\ HasKey(e, "type") /\ e.f["type"] = JStr("no_action")

\* some entry of the plan is invalid
HasInvalidEntry(plan) ==
    /\ IsDict(plan) /\ HasKey(plan, "actions") /\ IsList(plan.f["actions"])
    /\ \E i \in 1..Len(plan.f["actions"].items) :
        LET e == plan.f["actions"].items[i] IN
        \/ ~IsDict(e)
        \/ ~HasKey(e, "type")
        \/ e.f["type"] \notin {JStr(t) : t \in VALID_ACTION_TYPES}
        \/ e.f["type"] = JStr("scale")
            /\ ({"deployment_id", "new_count"} \ DOMAIN e.f) # {}
        \/ e.f["type"] = JStr("redeploy") /\ "deployment_id" \notin DOMAIN e.f

\* rows the iteration appends for a plan
RowsNeeded(plan) ==
    IF ~Truthy(plan) THEN 0
    ELSE LET v == validate_action_plan(plan) IN
         IF v.kind = "raised" THEN 0
         ELSE IF v.kind = "rejected" THEN 1
         ELSE Len(sanitize_action_plan(plan).items)

\* the iteration is left by an exception: its locals are gone
FrameLeft ==
    /\ iter' = NoIter
    /\ actions' = <<>>
    /\ cur' = 0
    /\ verdict' = NoVerdict
    /\ outcome' = NoOutcome

\* the clock advances by an hour; once the store is closed nothing reads it
TickHour ==
    /\ stop = "none"
    /\ now % Day < MaxHourOfDay
    /\ now' = now + Hour
    /\ UNCHANGED <<settings, deployments, ledger, cooldowns, applied, loopVars, clientVars>>

\* the clock advances by a day
TickDay ==
    /\ stop = "none"
    /\ now \div Day < MaxDays
    /\ now' = now + Day
    /\ UNCHANGED <<settings, deployments, ledger, cooldowns, applied, loopVars, clientVars>>

\* run_loop starts: running = True, the first iteration awaits the cleanup
RunLoopStart ==
    /\ pc = "created"
    /\ running' = TRUE
    /\ pc' = "cleanup"
    /\ iter' = IterStart
    /\ UNCHANGED <<now, settings, deployments, ledger, cooldowns, applied, dbOpen, stop,
                   actions, cur, verdict, outcome, calls, clientVars,
                   statusVars>>

\* step 1 of _execute_loop_iteration
Cleanup ==
    /\ pc = "cleanup" /\ dbOpen
    /\ cooldowns' = cleanup_expired_cooldowns
    /\ pc' = "fetch"
    /\ UNCHANGED <<now, settings, deployments, ledger, applied, running, dbOpen, stop,
                   actions, cur, verdict, outcome, iter, calls, clientVars,
                   statusVars>>

\* steps 2 to 4: the deployments, the policy summary and the recent actions are read
FetchDeployments ==
    /\ pc = "fetch" /\ dbOpen
    /\ \E api_deployments \in LoopListings :
        /\ deployments' = FetchedTable(api_deployments)
        /\ iter' = [iter EXCEPT !.fetchFailed = api_deployments = NoAnswer,
                                !.current = _fetch_deployments(api_deployments)]
    /\ pc' = "decide"
    /\ UNCHANGED <<now, settings, ledger, cooldowns, applied, running, dbOpen,
                   stop, actions, cur, verdict, outcome, calls, clientVars,
                   statusVars>>

\* list_deployments raises something other than a RequestException
FetchRaises ==
    /\ pc = "fetch" /\ dbOpen
    /\ pc' = "sleep_err"
    /\ FrameLeft
    /\ UNCHANGED <<now, settings, deployments, ledger, cooldowns, applied, running, dbOpen,
                   stop, calls, clientVars,
                   statusVars>>

\* last_loop_time of an agent that has completed no iteration
NoTime == [k |-> "none"]

\* run_loop: _execute_loop_iteration has returned
IterationReturns ==
    /\ loop_count' = loop_count + 1
    /\ last_loop_time' = [k |-> "time", t |-> now]

\* _execute_action returns: the next action, or the end of the iteration and the
\* interval sleep
ActionReturns ==
    /\ actions' = Tail(actions)
    /\ cur' = 0
    /\ verdict' = NoVerdict
    /\ outcome' = NoOutcome
    /\ pc' = IF Tail(actions) # <<>> THEN "log_action" ELSE "sleep"
    /\ IF Tail(actions) # <<>> THEN UNCHANGED statusVars ELSE IterationReturns

\* steps 5 to 7: the recommender answers, the plan is validated and sanitized
GetDecision ==
    /\ pc = "decide"
    /\ \E response \in Responses :
        LET action_plan == get_decision(response)
            v == validate_action_plan(action_plan)
        IN  /\ Len(ledger) + RowsNeeded(action_plan) <= MaxLedger
            /\ iter' = [iter EXCEPT
                    !.rejected = action_plan # JNull /\ v.kind = "rejected",
                    !.invalidEntry = HasInvalidEntry(action_plan),
                    !.noActionPlan = AllNoAction(action_plan) /\ v = Ok,
                    !.noResponse = action_plan = JNull,
                    !.malformed = response.kind = "doc" /\ ~HasActionsList(response.doc),
                    !.entries = IF v = Ok THEN Len(action_plan.f["actions"].items)
                                ELSE 0]
            /\ IF ~Truthy(action_plan)
               THEN actions' = <<>> /\ pc' = "sleep"
               ELSE IF v.kind = "raised"
               THEN actions' = <<>> /\ pc' = "sleep_err"
               ELSE IF v.kind = "rejected"
               THEN actions' = <<[error |-> v.msg]>> /\ pc' = "log_invalid"
               ELSE /\ actions' = sanitize_action_plan(action_plan).items
                    /\ pc' = IF actions' = <<>> THEN "sleep" ELSE "log_action"
            /\ IF pc' = "sleep" THEN IterationReturns ELSE UNCHANGED statusVars
    /\ UNCHANGED <<now, settings, deployments, ledger, cooldowns, applied, running, dbOpen, stop,
                   cur, verdict, outcome, calls, clientVars>>

\* variant: an iteration that ends on a rejected plan is not counted
LogInvalidUncounted ==
    /\ pc = "log_invalid" /\ dbOpen
    /\ ledger' = log_action("validation_failed", None, Head(actions), "failed", None)
    /\ actions' = <<>>
    /\ pc' = "sleep"
    /\ UNCHANGED <<now, settings, deployments, cooldowns, applied, running, dbOpen, stop,
                   cur, verdict, outcome, iter, calls, clientVars, statusVars>>

\* step 6, the plan was rejected: the validation_failed row
LogInvalid ==
    /\ pc = "log_invalid" /\ dbOpen
    /\ ledger' = log_action("validation_failed", None, Head(actions), "failed", None)
    /\ actions' = <<>>
    /\ pc' = "sleep"
    /\ IterationReturns
    /\ UNCHANGED <<now, settings, deployments, cooldowns, applied, running, dbOpen, stop,
                   cur, verdict, outcome, iter, calls, clientVars>>

\* variant: the pending rows of all the actions of the plan are written at once
LogEveryAction ==
    /\ pc = "log_action" /\ dbOpen
    /\ ledger' = ledger \o [i \in 1..Len(actions) |->
                                LedgerRow(actions[i].type.s, Column(actions[i].deployment_id),
                                          actions[i].details, "pending", None)]
    /\ cur' = Len(ledger) + 1
    /\ pc' = "validate"
    /\ UNCHANGED <<now, settings, deployments, cooldowns, applied, running, dbOpen, stop,
                   actions, verdict, outcome, iter, calls, clientVars,
                   statusVars>>

\* _execute_action: the pending row
LogAction ==
    /\ pc = "log_action" /\ dbOpen
    /\ LET action == Head(actions) IN
       ledger' = log_action(action.type.s, Column(action.deployment_id),
                            action.details, "pending", None)
    /\ cur' = Len(ledger) + 1
    /\ pc' = "validate"
    /\ UNCHANGED <<now, settings, deployments, cooldowns, applied, running, dbOpen, stop,
                   actions, verdict, outcome, iter, calls, clientVars,
                   statusVars>>

\* variant: the external call is made whatever validate_action answers
ValidateAfterCall ==
    /\ pc = "validate" /\ dbOpen
    /\ LET action == Head(actions)
           v == validate_action(action.type.s, Column(action.deployment_id), action.details)
       IN  IF v.kind = "raised"
           THEN pc' = "sleep_err" /\ FrameLeft /\ UNCHANGED calls
           ELSE \E call \in CallOutcomes :
                /\ verdict' = v
                /\ outcome' = Execute(action.type.s, call)
                /\ calls' = Append(calls, [action_type |-> action.type.s, id |-> cur,
                                           time |-> now])
                /\ pc' = IF v.allowed THEN "update_final" ELSE "update_blocked"
                /\ UNCHANGED <<actions, cur, iter>>
    /\ UNCHANGED <<now, settings, deployments, ledger, cooldowns, applied, running, dbOpen,
                   stop, clientVars,
                   statusVars>>

\* _execute_action: validate_action and, when allowed, the external call
Validate ==
    /\ pc = "validate" /\ dbOpen
    /\ LET action == Head(actions)
           v == validate_action(action.type.s, Column(action.deployment_id), action.details)
       IN  IF v.kind = "raised"
           THEN pc' = "sleep_err" /\ FrameLeft /\ UNCHANGED calls
           ELSE IF ~v.allowed
           THEN /\ pc' = "update_blocked"
                /\ verdict' = v
                /\ UNCHANGED <<actions, cur, outcome, iter, calls>>
           ELSE \E call \in CallOutcomes :
                /\ verdict' = v
                /\ outcome' = Execute(action.type.s, call)
                /\ calls' = Append(calls, [action_type |-> action.type.s, id |-> cur,
                                           time |-> now])
                /\ pc' = "update_final"
                /\ UNCHANGED <<actions, cur, iter>>
    /\ UNCHANGED <<now, settings, deployments, ledger, cooldowns, applied, running, dbOpen,
                   stop, clientVars,
                   statusVars>>

\* variant: a denied action ends the iteration
UpdateBlockedEndsIteration ==
    /\ pc = "update_blocked" /\ dbOpen
    /\ ledger' = update_action_status(cur, "blocked", verdict.reason)
    /\ actions' = <<>>
    /\ cur' = 0
    /\ verdict' = NoVerdict
    /\ outcome' = NoOutcome
    /\ pc' = "sleep"
    /\ IterationReturns
    /\ UNCHANGED <<now, settings, deployments, cooldowns, applied, running, dbOpen, stop, iter, calls,
                   clientVars>>

\* _execute_action: the action was denied
UpdateBlocked ==
    /\ pc = "update_blocked" /\ dbOpen
    /\ ledger' = update_action_status(cur, "blocked", verdict.reason)
    /\ ActionReturns
    /\ UNCHANGED <<now, settings, deployments, cooldowns, applied, running, dbOpen, stop, iter, calls,
                   clientVars>>

\* variant: the cooldown step follows whatever the final status is
UpdateFinalThenCooldown ==
    /\ pc = "update_final" /\ dbOpen
    /\ ledger' = update_action_status(cur, IF outcome.success THEN "completed" ELSE "failed",
                                      outcome.error)
    /\ pc' = "cooldown" /\ UNCHANGED <<actions, cur, verdict, outcome, statusVars>>
    /\ UNCHANGED <<now, settings, deployments, cooldowns, applied, running, dbOpen, stop, iter, calls,
                   clientVars>>

\* _execute_action: the final status
UpdateFinal ==
    /\ pc = "update_final" /\ dbOpen
    /\ ledger' = update_action_status(cur, IF outcome.success THEN "completed" ELSE "failed",
                                      outcome.error)
    /\ IF outcome.success
       THEN pc' = "cooldown" /\ UNCHANGED <<actions, cur, verdict, outcome, statusVars>>
       ELSE ActionReturns
    /\ UNCHANGED <<now, settings, deployments, cooldowns, applied, running, dbOpen, stop, iter, calls,
                   clientVars>>

\* _execute_action: the cooldown of a successful action
ApplyCooldown ==
    /\ pc = "cooldown" /\ dbOpen
    /\ LET action == Head(actions) IN
       /\ cooldowns' = apply_cooldown(action.type.s, Column(action.deployment_id))
       /\ applied' = Append(applied, [action_type |-> action.type.s,
                                      deployment_id |-> Column(action.deployment_id),
                                      expires |-> now + Seconds(CooldownSeconds(action.type.s))])
    /\ ActionReturns
    /\ UNCHANGED <<now, settings, deployments, ledger, running, dbOpen, stop, iter, calls, clientVars>>

\* an operation on the closed connection raises
StoreRaises ==
    /\ pc \in DbPcs /\ ~dbOpen
    /\ pc' = "sleep_err"
    /\ FrameLeft
    /\ UNCHANGED <<now, settings, deployments, ledger, cooldowns, applied, running, dbOpen,
                   stop, calls, clientVars,
                   statusVars>>

\* variant: while True, the flag is not read
WakeWhateverTheFlag ==
    /\ pc \in {"sleep", "sleep_err"}
    /\ Len(ledger) < MaxLedger /\ loop_count < MaxLoops
    /\ pc' = "cleanup" /\ iter' = IterStart
    /\ UNCHANGED <<now, settings, deployments, ledger, cooldowns, applied, running, dbOpen,
                   stop, actions, cur, verdict, outcome, calls, clientVars,
                   statusVars>>

\* variant: the except block leaves the while loop after its sleep
WakeEndsAfterError ==
    /\ pc \in {"sleep", "sleep_err"}
    /\ IF running /\ pc = "sleep"
       THEN /\ Len(ledger) < MaxLedger /\ loop_count < MaxLoops
            /\ pc' = "cleanup" /\ iter' = IterStart
       ELSE pc' = "exited" /\ iter' = NoIter
    /\ UNCHANGED <<now, settings, deployments, ledger, cooldowns, applied, running, dbOpen,
                   stop, actions, cur, verdict, outcome, calls, clientVars,
                   statusVars>>

\* asyncio.sleep returns, in the try block or in the except block: while self.running.
\* Another iteration is followed while the ledger has room for a row and the
\* counter is below its bound.
Wake ==
    /\ pc \in {"sleep", "sleep_err"}
    /\ IF running
       THEN /\ Len(ledger) < MaxLedger /\ loop_count < MaxLoops
            /\ pc' = "cleanup" /\ iter' = IterStart
       ELSE pc' = "exited" /\ iter' = NoIter
    /\ UNCHANGED <<now, settings, deployments, ledger, cooldowns, applied, running, dbOpen,
                   stop, actions, cur, verdict, outcome, calls, clientVars,
                   statusVars>>

\* lifespan: agent.shutdown() sets running = False and closes the store.  The server
\* has served in between, so the task created at startup has begun run_loop.
Shutdown ==
    /\ stop = "none"
    /\ pc # "created"
    /\ running' = FALSE
    /\ dbOpen' = FALSE
    /\ stop' = "shutdown"
    /\ UNCHANGED <<now, settings, deployments, ledger, cooldowns, applied, pc,
                   actions, cur, verdict, outcome, iter, calls, clientVars,
                   statusVars>>

\* lifespan: agent_task.cancel() raises CancelledError at the await the task is at
Cancel ==
    /\ stop = "shutdown"
    /\ pc # "exited"
    /\ pc' = "exited"
    /\ FrameLeft
    /\ UNCHANGED <<now, settings, deployments, ledger, cooldowns, applied, running, dbOpen,
                   stop, calls, clientVars,
                   statusVars>>

\* get_status: the fields the loop keeps (the store's statistics and the
\* configuration are left out)
get_status ==
    [running |-> running,
     loop_count |-> loop_count,
     last_loop_time |-> IF last_loop_time = NoTime THEN JNull
                        ELSE JStr(isoformat(last_loop_time.t))]

\* src/config.py: the guardrail settings, each set by the environment
SettingsChoices ==
    {[max_actions_per_hour |-> m[1], max_actions_per_day |-> m[2],
      scale_cooldown_seconds |-> 3600, redeploy_cooldown_seconds |-> 7200] :
        m \in {<<1, 3>>, <<2, 3>>, <<3, 2>>}}

Init ==
    /\ now = 0
    /\ settings \in SettingsChoices
    /\ ledger = <<>>
    /\ cooldowns = <<>>
    /\ applied = <<>>
    /\ pc = "created"
    /\ running = FALSE
    /\ dbOpen = TRUE
    /\ stop = "none"
    /\ actions = <<>>
    /\ cur = 0
    /\ verdict = NoVerdict
    /\ outcome = NoOutcome
    /\ iter = NoIter
    /\ calls = <<>>
    /\ loop_count = 0
    /\ last_loop_time = NoTime
    /\ deployments = <<>>
    /\ listed = NoAnswer
    /\ fetched = <<>>
    /\ lastWrite = NoWrite
    /\ doc = JNull
    /\ checked = <<>>
    /\ sanitized = NoVerdict

-----------------------------------------------------------------------------
(* A caller of the validator: validate_action_plan and sanitize_action_plan *)

\* entries of the documents handed to the validator
PlanEntries ==
    {JStr("scale"), JNull,
     MkEntry(Absent, JStr("d1"), JInt(3), Absent),
     MkEntry(JStr("scale"), JStr("d1"), JInt(3), JStr("load")),
     MkEntry(JStr("scale"), JStr("d1"), JStr("3"), Absent),
     MkEntry(JStr("scale"), JStr("d1"), Absent, Absent),
     MkEntry(JStr("scale"), Absent, Absent, Absent),
     MkEntry(JStr("scale"), Absent, JInt(3), Absent),
     MkEntry(JStr("redeploy"), JStr("d1"), Absent, Absent),
     MkEntry(JStr("redeploy"), Absent, Absent, Absent),
     MkEntry(JStr("no_action"), Absent, Absent, JStr("idle")),
     MkEntry(JStr("restart"), JStr("d1"), Absent, Absent),
     MkEntry(JInt(1), JStr("d1"), Absent, Absent),
     MkEntry(JNull, JStr("d1"), Absent, Absent),
     MkEntry(JList(<<>>), JStr("d1"), JInt(3), Absent),
     MkEntry(JDict(<<>>), JStr("d1"), JInt(3), Absent)}

\* the documents handed to the validator
PlanDocs ==
    {JNull, JInt(0), JStr("scale"), JList(<<>>), JDict(<<>>),
     JDict([reasoning |-> JStr("nothing to do")]),
     JDict([actions |-> JNull]), JDict([actions |-> JStr("scale")]),
     JDict([actions |-> JDict(<<>>)])}
    \cup {MkPlan(items) : items \in SeqUpTo(PlanEntries, MaxPlanLen)}

\* validate_action_plan(d) is called twice and, when it accepts d, sanitize_action_plan(d)
ValidatePlan ==
    /\ checked = <<>>
    /\ \E d \in PlanDocs :
        /\ doc' = d
        /\ checked' = <<validate_action_plan(d), validate_action_plan(d)>>
        /\ sanitized' = IF validate_action_plan(d) = Ok THEN sanitize_action_plan(d)
                        ELSE NoVerdict
    /\ UNCHANGED <<now, settings, deployments, ledger, cooldowns, applied, loopVars,
                   fetchVars, lastWrite>>

NextPlan == ValidatePlan

SpecPlan == Init /\ [][NextPlan]_vars

-----------------------------------------------------------------------------
(* A caller of _fetch_deployments *)

\* the deployments the API can list
ApiDeployments ==
    {[dseq |-> "d1", name |-> "web-app", status |-> "active",
      services |-> [web |-> [replicas |-> 3]]],
     [dseq |-> "d1", services |-> [web |-> [replicas |-> 3], worker |-> <<>>]],
     [id |-> "d2", name |-> "api", status |-> "active",
      services |-> [web |-> <<>>, worker |-> [replicas |-> 2]]],
     [dseq |-> "d2", name |-> "api", status |-> "closed"],
     [name |-> "stray", services |-> [web |-> [replicas |-> 0]]],
     [dseq |-> "d1", id |-> "d2", services |-> [worker |-> [replicas |-> 2]],
      metrics |-> [cpu |-> 90]]}

\* what list_deployments can answer
Listings ==
    {NoAnswer} \cup {Listing(items) : items \in SeqUpTo(ApiDeployments, MaxListing)}

\* _fetch_deployments runs with the answer api_deployments
ClientFetch ==
    /\ \E api_deployments \in Listings :
        /\ listed' = api_deployments
        /\ deployments' = FetchedTable(api_deployments)
        /\ fetched' = _fetch_deployments(api_deployments)
    /\ UNCHANGED <<now, settings, ledger, cooldowns, applied, loopVars,
                   planVars, lastWrite>>

NextFetch == ClientFetch

SpecFetch == Init /\ [][NextFetch]_vars

-----------------------------------------------------------------------------
(* A caller of log_action and update_action_status *)

ClientTypes == {"scale", "redeploy"}
ClientDeployments == {None, "d1", "d2"}
ClientStatuses == {"pending", "completed", "failed", "blocked"}

\* log_action(t, "d1", details) is called and returns the id of the new row
ClientLogAction ==
    /\ Len(ledger) < MaxLedger
    /\ \E t \in ClientTypes :
        ledger' = log_action(t, "d1", [reason |-> "load"], "pending", None)
    /\ lastWrite' = [op |-> "log_action", id |-> Len(ledger) + 1,
                     status |-> "pending", returned |-> 0]
    /\ UNCHANGED <<now, settings, deployments, cooldowns, applied, loopVars,
                   planVars, fetchVars>>

\* update_action_status(id, status) is called for a row of the ledger
ClientUpdateStatus ==
    /\ \E id \in 1..Len(ledger), status \in ClientStatuses \ {"pending"} :
        /\ ledger' = update_action_status(id, status, None)
        /\ lastWrite' = [op |-> "update_action_status", id |-> id, status |-> status,
                         returned |-> IF lastWrite.op = "log_action"
                                      THEN lastWrite.id ELSE 0]
    /\ UNCHANGED <<now, settings, deployments, cooldowns, applied, loopVars,
                   planVars, fetchVars>>

\* the ledger under its callers
NextLedger == TickHour \/ TickDay \/ ClientLogAction \/ ClientUpdateStatus

SpecLedger == Init /\ [][NextLedger]_vars

-----------------------------------------------------------------------------
(* A caller of the store and of the guardrail engine *)

\* log_action is called for an action of type t
ClientLog ==
    /\ Len(ledger) < MaxLedger
    /\ \E t \in ClientTypes :
        ledger' = log_action(t, "d1", <<>>, "completed", None)
    /\ UNCHANGED <<now, settings, deployments, cooldowns, applied, loopVars, clientVars>>

\* apply_cooldown(t, d) is called
ClientApply ==
    /\ Len(applied) < MaxCooldowns
    /\ \E t \in ClientTypes, d \in ClientDeployments :
        /\ cooldowns' = apply_cooldown(t, d)
        /\ applied' = Append(applied, [action_type |-> t, deployment_id |-> d,
                                       expires |-> now + Seconds(CooldownSeconds(t))])
    /\ UNCHANGED <<now, settings, deployments, ledger, loopVars, clientVars>>

\* cleanup_expired_cooldowns is called
ClientCleanup ==
    /\ cooldowns' = cleanup_expired_cooldowns
    /\ UNCHANGED <<now, settings, deployments, ledger, applied, loopVars, clientVars>>

\* the cooldown table under its callers
NextCooldown == TickHour \/ TickDay \/ ClientApply \/ ClientCleanup

SpecCooldown == Init /\ [][NextCooldown]_vars

\* the ledger and the cooldown table under the callers that write them
NextPolicy == TickHour \/ TickDay \/ ClientLog \/ ClientApply

SpecPolicy == Init /\ [][NextPolicy]_vars

-----------------------------------------------------------------------------
Next ==
    \/ TickHour
    \/ RunLoopStart \/ Cleanup \/ FetchDeployments \/ FetchRaises \/ GetDecision
    \/ LogInvalid \/ LogAction \/ Validate \/ UpdateBlocked \/ UpdateFinal
    \/ ApplyCooldown \/ StoreRaises \/ Wake
    \/ Shutdown \/ Cancel

Spec == Init /\ [][Next]_vars

\* the agent loop at one instant of the clock, up to its end
NextStop ==
    \/ RunLoopStart \/ Cleanup \/ FetchDeployments \/ FetchRaises \/ GetDecision
    \/ LogInvalid \/ LogAction \/ Validate \/ UpdateBlocked \/ UpdateFinal
    \/ ApplyCooldown \/ StoreRaises \/ Wake
    \/ Shutdown \/ Cancel

\* lifespan cancels the task right after shutdown() has returned, and the
\* CancelledError is raised at the await the task is suspended at
SpecStop == Init /\ [][NextStop]_vars /\ WF_vars(Cancel)

-----------------------------------------------------------------------------
(* The arguments validate_action is asked about in the properties below *)

QueryTypes == {"scale", "redeploy", "no_action"}
QueryDeployments == {None, "", "d1", "d2"}
QueryDetails ==
    {<<>>} \cup {[new_count |-> n, reason |-> DEFAULT_REASON] :
                    n \in {JNull, JInt(-1), JInt(0), JInt(3), JInt(10), JInt(11), JStr("3")}}

\* the ledger rows of an action type whose timestamp lies in the trailing window
RecordsWithin(action_type, window) ==
    {i \in 1..Len(ledger) :
        /\ ledger[i].action_type = action_type
        /\ fromisoformat(ledger[i].timestamp) >= now - window
        /\ fromisoformat(ledger[i].timestamp) <= now}

\* validate_action answered with a denial
IsDenial(v) == v.kind = "verdict" /\ ~v.allowed

-----------------------------------------------------------------------------
(* Properties *)

\* C1: for every action type, deployment id and details, if the ledger holds at least
\* max_actions_per_hour records of that type with a timestamp within the trailing
\* hour, validate_action returns a denial, whatever the cooldown table holds.
C1_HourlyCeilingDenies ==
    \A t \in QueryTypes, d \in QueryDeployments, det \in QueryDetails :
        Cardinality(RecordsWithin(t, Hour)) >= settings.max_actions_per_hour
            => IsDenial(validate_action(t, d, det))

\* C1 witness: the ceiling is reached for scale while no scale cooldown is active, a
\* cooldown row exists, the details are valid, and validate_action denies
C1_Witness ==
    /\ Cardinality(RecordsWithin("scale", Hour)) = settings.max_actions_per_hour
    /\ cooldowns # <<>>
    /\ ~check_cooldown("scale", "d1")
    /\ _validate_scale_action([new_count |-> JInt(3), reason |-> DEFAULT_REASON]) = Allowed
    /\ IsDenial(validate_action("scale", "d1", [new_count |-> JInt(3), reason |-> DEFAULT_REASON]))

\* the external calls for an action type made in the window that ends at time T
CallsWithin(action_type, T, window) ==
    {j \in 1..Len(calls) :
        /\ calls[j].action_type = action_type
        /\ calls[j].time >= T - window
        /\ calls[j].time <= T}

OtherActiveMatches(j) ==
    {k \in 1..Len(applied) :
        /\ k # j
        /\ applied[k].action_type = applied[j].action_type
        /\ (Given(applied[j].deployment_id)
                => applied[k].deployment_id = applied[j].deployment_id)
        /\ now < applied[k].expires}

\* the other cooldowns applied for the very pair of applied[j]
OtherForPair(j) ==
    {k \in 1..Len(applied) :
        /\ k # j
        /\ applied[k].action_type = applied[j].action_type
        /\ applied[k].deployment_id = applied[j].deployment_id}

\* C3 (amended): once apply_cooldown(type, depId) has been called, validate_action
\* for (type, depId) denies at every time strictly before the row's expires_at; from
\* now >= expires_at on the cooldown check no longer denies, provided no other
\* unexpired row matches the check: a row of the same type and, when depId is given,
\* of the same deployment id (when depId is omitted, of any deployment).
C3_CooldownWindow ==
    \A j \in 1..Len(applied) :
        LET a == applied[j] IN
        /\ now < a.expires =>
                \A det \in QueryDetails :
                    IsDenial(validate_action(a.action_type, a.deployment_id, det))
        /\ (now >= a.expires /\ OtherActiveMatches(j) = {}) =>
                ~check_cooldown(a.action_type, a.deployment_id)

\* C3 as stated: the same, provided only that no other cooldown was applied for the
\* pair (type, depId) itself
C3_AsStated ==
    \A j \in 1..Len(applied) :
        LET a == applied[j] IN
        /\ now < a.expires =>
                \A det \in QueryDetails :
                    IsDenial(validate_action(a.action_type, a.deployment_id, det))
        /\ (now >= a.expires /\ OtherForPair(j) = {}) =>
                ~check_cooldown(a.action_type, a.deployment_id)

\* C3 witness: a cooldown has run out at this very instant and its row is still in
\* the table, another cooldown is active, and the check for the first one's pair
\* does not deny
C3_Witness ==
    \E j, k \in 1..Len(applied) :
        /\ now = applied[j].expires
        /\ Len(cooldowns) = Len(applied)
        /\ now < applied[k].expires
        /\ OtherActiveMatches(j) = {}
        /\ ~check_cooldown(applied[j].action_type, applied[j].deployment_id)

\* the ledger holds no record in status pending
NoPending == \A i \in 1..Len(ledger) : ledger[i].status # "pending"

\* the first two records are scale actions for d1 with a valid new_count, both
\* terminal, neither failed, the first logged within the trailing hour
TwoScalesWithinTheHour ==
    /\ Len(ledger) = 2
    /\ \A i \in 1..2 :
        /\ ledger[i].action_type = "scale"
        /\ ledger[i].deployment_id = "d1"
        /\ ledger[i].details
            = json_dumps([new_count |-> JInt(3), reason |-> DEFAULT_REASON])
        /\ ledger[i].status \in {"completed", "blocked"}
    /\ fromisoformat(ledger[1].timestamp) >= now - Hour

\* C4: with max_actions_per_hour = 1 and an initially empty ledger, of two consecutive
\* scale actions for the same deployment within one hour the first record ends
\* completed with a cooldown applied for it, and the second ends blocked with the
\* rate-limit reason.
C4_FirstCompletesSecondBlocked ==
    (settings.max_actions_per_hour = 1 /\ TwoScalesWithinTheHour) =>
        /\ ledger[1].status = "completed"
        /\ \E k \in 1..Len(applied) :
            applied[k].action_type = "scale" /\ applied[k].deployment_id = "d1"
        /\ ledger[2].status = "blocked"
        /\ ledger[2].error = "Rate limit exceeded for {action_type}"

\* C5: once the iteration that appended it is over, no record is left pending: each
\* pending record has been moved to completed, failed or blocked, also when
\* validate_action, the external call or a store write raised.
C5_PendingBecomesTerminal ==
    (pc \in {"sleep", "sleep_err"} /\ stop = "none") => NoPending

\* C6: after the loop has exited on a stop signal, the ledger holds no pending record.
C6_NoPendingAfterExit ==
    pc = "exited" => NoPending

\* C7: an error raised inside an iteration does not end run_loop: the loop exits
\* only under a stop signal, and while no stop signal is given the step that follows
\* the sleep after an error starts another iteration.
C7_ErrorsDoNotEndTheLoop ==
    [][/\ (pc' = "exited" => stop' # "none")
       /\ (pc = "sleep_err" /\ stop = "none" /\ pc' # pc) => pc' = "cleanup"]_vars

\* C7 witness: an error left a pending record behind (validate_action raised) and,
\* with no stop signal, the loop is in a later iteration
C7_Witness ==
    /\ stop = "none"
    /\ pc = "decide"
    /\ ~NoPending

\* C8: when the recommender returns a plan for which validate_action_plan returns
\* not-ok, the iteration appends exactly one record, with action_type
\* validation_failed, status failed and no deployment_id, makes no external call,
\* appends no pending record and writes no cooldown row.
C8_RejectedPlanOneRecord ==
    (pc = "sleep" /\ iter.rejected) =>
        /\ Len(ledger) = iter.ledger0 + 1
        /\ ledger[Len(ledger)].action_type = "validation_failed"
        /\ ledger[Len(ledger)].status = "failed"
        /\ ledger[Len(ledger)].deployment_id = None
        /\ Len(calls) = iter.calls0
        /\ Len(applied) = iter.applied0

\* C9: if any entry of the plan is invalid, validate_action_plan rejects the whole
\* plan and the loop executes no entry of it: no external call, no record other than
\* the validation_failed one.
C9_InvalidEntryRejectsPlan ==
    iter.invalidEntry =>
        /\ iter.rejected
        /\ Len(calls) = iter.calls0
        /\ Len(applied) = iter.applied0
        /\ \A i \in (iter.ledger0 + 1)..Len(ledger) :
            ledger[i].action_type = "validation_failed"

\* C10: validate_action_plan returns a verdict, ok or rejected, for every document
\* without raising, and the same verdict when run again on the same document.
C10_TotalAndDeterministic ==
    checked # <<>> =>
        /\ checked[1].kind \in {"ok", "rejected"}
        /\ checked[2] = checked[1]

\* the entries of a document that is a mapping with an actions list, else none
EntriesOf(d) ==
    IF IsDict(d) /\ HasKey(d, "actions") /\ IsList(d.f["actions"])
    THEN d.f["actions"].items ELSE <<>>

\* a scale entry that lacks new_count
ScaleWithoutNewCount(e) ==
    IsDict(e) /\ HasKey(e, "type") /\ e.f["type"] = JStr("scale") /\ ~HasKey(e, "new_count")

\* an entry the plan format does not allow
InvalidEntry(e) ==
    \/ ~IsDict(e)
    \/ ~HasKey(e, "type")
    \/ e.f["type"] \notin {JStr(t) : t \in VALID_ACTION_TYPES}
    \/ e.f["type"] = JStr("scale") /\ ({"deployment_id", "new_count"} \ DOMAIN e.f) # {}
    \/ e.f["type"] = JStr("redeploy") /\ "deployment_id" \notin DOMAIN e.f

\* entry i is the first invalid entry of the document
FirstInvalid(d, i) ==
    /\ i \in 1..Len(EntriesOf(d))
    /\ InvalidEntry(EntriesOf(d)[i])
    /\ \A j \in 1..(i - 1) : ~InvalidEntry(EntriesOf(d)[j])

\* C11 (amended): for every plan whose first invalid entry is a scale entry that
\* carries a deployment_id and lacks new_count, validate_action_plan rejects the plan
\* with an error that names the field new_count and that entry.
C11_MissingNewCountNamed ==
    checked # <<>> =>
        \A i \in 1..Len(EntriesOf(doc)) :
            (/\ FirstInvalid(doc, i)
             /\ ScaleWithoutNewCount(EntriesOf(doc)[i])
             /\ HasKey(EntriesOf(doc)[i], "deployment_id"))
            => /\ checked[1].kind = "rejected"
               /\ checked[1].field = "new_count"
               /\ checked[1].i = i - 1

\* C11 as stated: for every plan containing a scale entry that lacks new_count,
\* validate_action_plan rejects the plan with an error that names new_count
C11_AsStated ==
    (checked # <<>> /\ \E i \in 1..Len(EntriesOf(doc)) : ScaleWithoutNewCount(EntriesOf(doc)[i]))
        => checked[1].kind = "rejected" /\ checked[1].field = "new_count"

\* C11 witness: a valid entry is followed by a scale entry with a deployment_id and
\* without new_count, and the plan was rejected naming new_count
C11_Witness ==
    /\ checked # <<>>
    /\ FirstInvalid(doc, 2)
    /\ ScaleWithoutNewCount(EntriesOf(doc)[2])
    /\ HasKey(EntriesOf(doc)[2], "deployment_id")
    /\ checked[1].kind = "rejected"
    /\ checked[1].field = "new_count"

\* C12: every action sanitize_action_plan produces from a plan that passed
\* validate_action_plan makes validate_action return an (allowed, reason) verdict
\* without raising: a scale entry whose new_count is not an integer does not get
\* past plan validation.
C12_SanitizedActionsGetVerdicts ==
    (checked # <<>> /\ checked[1] = Ok) =>
        \A i \in 1..Len(sanitized.items) :
            LET action == sanitized.items[i] IN
            validate_action(action.type.s, Column(action.deployment_id),
                            action.details).kind = "verdict"

\* an entry whose type is not no_action
NotNoAction(e) == e.f["type"] # JStr("no_action")

\* the details sanitize_action_plan is to build for an entry
ExpectedDetails(e) ==
    LET reason == IF "reason" \in DOMAIN e.f THEN e.f["reason"] ELSE JStr("LLM recommendation")
    IN  IF e.f["type"] = JStr("scale")
        THEN [new_count |-> e.f["new_count"], reason |-> reason]
        ELSE [reason |-> reason]

\* C13: for every validated plan sanitize_action_plan does not fail and returns
\* exactly the plan's entries whose type is not no_action, in their order in the plan,
\* each as {type, deployment_id, details}.
C13_SanitizeKeepsOrderedActions ==
    (checked # <<>> /\ checked[1] = Ok) =>
        LET kept == SelectSeq(EntriesOf(doc), NotNoAction) IN
        /\ sanitized.kind = "list"
        /\ Len(sanitized.items) = Len(kept)
        /\ \A i \in 1..Len(kept) :
            /\ DOMAIN sanitized.items[i] = {"type", "deployment_id", "details"}
            /\ sanitized.items[i].type = kept[i].f["type"]
            /\ sanitized.items[i].deployment_id =
                    (IF "deployment_id" \in DOMAIN kept[i].f
                     THEN kept[i].f["deployment_id"] ELSE JNull)
            /\ sanitized.items[i].details = ExpectedDetails(kept[i])

\* C13 witness: a validated plan of a no_action entry followed by a scale entry was
\* sanitized to the one scale action
C13_Witness ==
    /\ checked # <<>> /\ checked[1] = Ok
    /\ Len(EntriesOf(doc)) = 2
    /\ ~NotNoAction(EntriesOf(doc)[1])
    /\ EntriesOf(doc)[2].f["type"] = JStr("scale")
    /\ Len(sanitized.items) = 1
    /\ sanitized.items[1].type = JStr("scale")

\* the replicas service n of services stands for: what it declares, 1 when it
\* declares none, nothing when the deployment has no such service
ReplicasOfService(services, n) ==
    IF n \notin DOMAIN services THEN 0
    ELSE IF "replicas" \in DOMAIN services[n] THEN services[n].replicas
    ELSE 1

\* the sum over the declared services of a listed deployment
DeclaredReplicas(dep) ==
    IF "services" \notin DOMAIN dep THEN 0
    ELSE ReplicasOfService(dep.services, "web")
         + ReplicasOfService(dep.services, "worker")

\* the id under which a listed deployment is stored
StoredId(dep) ==
    IF "dseq" \in DOMAIN dep THEN dep.dseq
    ELSE IF "id" \in DOMAIN dep THEN dep.id
    ELSE "unknown"

\* entry i of the listing is the last one listed under its id
LastListed(i) ==
    \A j \in (i + 1)..Len(listed.items) :
        StoredId(listed.items[j]) # StoredId(listed.items[i])

\* C14: after _fetch_deployments has stored a listing, the replica count stored
\* (and returned) for each listed deployment is the sum over its declared
\* services of their replicas, a service without a replicas value counting as 1.
C14_ReplicaCountIsSumOfServices ==
    ~NoListing(listed) =>
        \A i \in 1..Len(listed.items) :
            /\ fetched[i].replicas = DeclaredReplicas(listed.items[i])
            /\ LastListed(i) =>
                \E r \in 1..Len(deployments) :
                    /\ deployments[r].deployment_id = StoredId(listed.items[i])
                    /\ deployments[r].replicas = DeclaredReplicas(listed.items[i])

\* services {web: {replicas: 3}, worker: {}} were listed and are stored with 4
C14_Witness ==
    /\ ~NoListing(listed)
    /\ \E i \in 1..Len(listed.items) :
        /\ LastListed(i)
        /\ "services" \in DOMAIN listed.items[i]
        /\ listed.items[i].services = [web |-> [replicas |-> 3], worker |-> <<>>]
        /\ \E r \in 1..Len(deployments) :
            /\ deployments[r].deployment_id = "d1"
            /\ deployments[r].replicas = 4

\* C15: when log_action has returned id and update_action_status(id, completed)
\* is the next write, whatever the ledger held before, get_recent_actions(1)
\* returns one entry: the record id, with status completed.
C15_LoggedThenCompletedIsOnTop ==
    (/\ lastWrite.op = "update_action_status"
     /\ lastWrite.returned = lastWrite.id
     /\ lastWrite.status = "completed")
    => /\ Len(get_recent_actions(1)) = 1
       /\ get_recent_actions(1)[1].id = lastWrite.id
       /\ get_recent_actions(1)[1].status = "completed"
       /\ get_recent_actions(1)[1].error = None
       /\ get_recent_actions(1)[1].timestamp = ledger[lastWrite.id].timestamp
       /\ get_recent_actions(1)[1].action_type = ledger[lastWrite.id].action_type
       /\ get_recent_actions(1)[1].details = json_dumps([reason |-> "load"])

\* a second record was logged within the hour of an earlier one and then completed
C15_Witness ==
    /\ lastWrite.op = "update_action_status"
    /\ lastWrite.returned = lastWrite.id
    /\ lastWrite.status = "completed"
    /\ lastWrite.id = 2
    /\ ledger[1].timestamp = ledger[2].timestamp
    /\ ledger[1].status = "failed"

\* C16: when the recommender returns a valid plan whose entries are all no_action,
\* sanitize_action_plan returns the empty sequence and the iteration appends no
\* ledger record, makes no external call and writes no cooldown row.
C16_NoActionPlanDoesNothing ==
    iter.noActionPlan =>
        /\ actions = <<>>
        /\ cur = 0
        /\ Len(ledger) = iter.ledger0
        /\ Len(calls) = iter.calls0
        /\ Len(applied) = iter.applied0

\* an iteration that began with a record in the ledger and an unexpired cooldown
\* was given two no_action entries and sleeps
C16_Witness ==
    /\ iter.noActionPlan
    /\ iter.entries = 2
    /\ pc = "sleep"
    /\ iter.ledger0 > 0
    /\ cooldowns # <<>>

\* details with which a scale action passes its own validation
AcceptableDetails == [new_count |-> JInt(3), reason |-> DEFAULT_REASON]

\* the unexpired cooldowns applied for exactly the pair (t, d)
ActiveFor(t, d) ==
    {k \in 1..Len(applied) :
        /\ applied[k].action_type = t
        /\ applied[k].deployment_id = d
        /\ now < applied[k].expires}

\* C17: cooldowns are keyed by action type and deployment: with the rate limits
\* not reached, validate_action for type t on an explicitly given deployment d is
\* allowed unless an unexpired cooldown was applied for (t, d) itself; an active
\* row for (T, A) denies neither another type on A nor T on another given B.
C17_CooldownsAreKeyed ==
    \A t \in QueryTypes, d \in {"d1", "d2"} :
        ActiveFor(t, d) = {} =>
            /\ ~check_cooldown(t, d)
            /\ validate_action(t, d, AcceptableDetails) = Allowed

\* a cooldown for (scale, d1) is active, and neither redeploy on d1 nor scale on d2
\* is denied
C17_Witness ==
    /\ ActiveFor("scale", "d1") # {}
    /\ IsDenial(validate_action("scale", "d1", AcceptableDetails))
    /\ validate_action("redeploy", "d1", AcceptableDetails) = Allowed
    /\ validate_action("scale", "d2", AcceptableDetails) = Allowed

\* C18: a cooldown applied with deployment_id null applies globally: while it is
\* unexpired, validate_action denies every action of its type, for every
\* deployment id, given or omitted.
C18_NullCooldownIsGlobal ==
    \A k \in 1..Len(applied) :
        (applied[k].deployment_id = None /\ now < applied[k].expires) =>
            \A d \in QueryDeployments, det \in QueryDetails :
                IsDenial(validate_action(applied[k].action_type, d, det))

\* the records of the pair (t, d) that are completed, the one whose action is still
\* at its apply_cooldown step left out
CompletedFor(t, d) ==
    {i \in 1..Len(ledger) :
        /\ ledger[i].action_type = t
        /\ ledger[i].deployment_id = d
        /\ ledger[i].status = "completed"
        /\ ~(cur = i /\ pc = "cooldown")}

\* the cooldowns apply_cooldown has written for the pair (t, d)
AppliedFor(t, d) ==
    {k \in 1..Len(applied) :
        applied[k].action_type = t /\ applied[k].deployment_id = d}

\* C19: every scale or redeploy record that reaches completed is followed by a
\* cooldown row for the same (action type, deployment id), in every execution,
\* also when an error or a cancellation falls between the status update and
\* apply_cooldown.
C19_CompletedIsCooledDown ==
    \A t \in {"scale", "redeploy"}, d \in QueryDeployments :
        Cardinality(CompletedFor(t, d)) <= Cardinality(AppliedFor(t, d))

\* _execute_action is at one of its awaits
Handling == pc \in {"log_action", "validate", "update_blocked", "update_final", "cooldown"}

\* the records of the pair (t, d) with status completed
CompletedRecords(t, d) ==
    {i \in 1..Len(ledger) :
        /\ ledger[i].action_type = t
        /\ ledger[i].deployment_id = d
        /\ ledger[i].status = "completed"}

\* each cooldown row written stands for a completed record of its pair
CooldownsHaveCompletedRecords ==
    \A t \in QueryTypes, d \in QueryDeployments :
        Cardinality(AppliedFor(t, d)) <= Cardinality(CompletedRecords(t, d))

\* C20: only successful actions cool down: no step of _execute_action changes the
\* cooldown table unless the action's record is completed, so handling an action
\* whose record ends failed or blocked leaves the table unchanged, and every
\* cooldown row written stands for a completed record of its pair.
C20_OnlySuccessCoolsDown ==
    [][/\ (Handling /\ ~(pc = "cooldown" /\ ledger[cur].status = "completed"))
            => (cooldowns' = cooldowns /\ applied' = applied)
       /\ CooldownsHaveCompletedRecords']_vars

\* one action has ended failed and the next one blocked, both have been handled
\* and no cooldown was written
C20_Witness ==
    /\ Len(ledger) = 2
    /\ ledger[1].status = "failed"
    /\ ledger[2].status = "blocked"
    /\ pc = "sleep"
    /\ Len(calls) = 1
    /\ cooldowns = <<>>
    /\ applied = <<>>

\* a status after which a record is final
Terminal(status) == status \in {"completed", "failed", "blocked"}

StoredIds == {"d1", "d2", "unknown"}

\* the rows of table t with the id
RowsFor(t, id) == {r \in 1..Len(t) : t[r].deployment_id = id}

\* the snapshot an upsert of the listed deployment dep is to leave
ExpectedRow(dep) ==
    [deployment_id |-> StoredId(dep),
     name |-> IF "name" \in DOMAIN dep THEN dep.name ELSE "unnamed",
     status |-> IF "status" \in DOMAIN dep THEN dep.status ELSE "unknown",
     replicas |-> DeclaredReplicas(dep),
     metrics |-> IF "metrics" \in DOMAIN dep THEN json_dumps(dep.metrics) ELSE None]

\* the deployments a run of _fetch_deployments upserts, in order
Upserted(answer) == IF NoListing(answer) THEN <<>> ELSE answer.items

\* C22: update_deployment_state is an upsert keyed by deployment_id: a run of
\* upserts leaves exactly one snapshot for each id upserted now or before, the
\* snapshot of an id upserted now carries the name, status, replicas and metrics of
\* the last upsert for it, the snapshots of the other ids are kept, and repeating
\* an upsert leaves the table as the first one left it.
C22_UpsertKeyedById ==
    [][LET ups == Upserted(listed') IN
       /\ \A id \in StoredIds :
            Cardinality(RowsFor(deployments', id))
                = IF \/ RowsFor(deployments, id) # {}
                     \/ \E i \in 1..Len(ups) : StoredId(ups[i]) = id
                  THEN 1 ELSE 0
       /\ \A i \in 1..Len(ups) :
            (\A j \in (i + 1)..Len(ups) : StoredId(ups[j]) # StoredId(ups[i]))
            => \E r \in 1..Len(deployments') : deployments'[r] = ExpectedRow(ups[i])
       /\ \A r \in 1..Len(deployments) :
            (\A i \in 1..Len(ups) : StoredId(ups[i]) # deployments[r].deployment_id)
            => \E q \in 1..Len(deployments') : deployments'[q] = deployments[r]
       /\ \A dep \in ApiDeployments :
            UpsertFrom(UpsertFrom(deployments', <<dep>>, 1), <<dep>>, 1)
                = UpsertFrom(deployments', <<dep>>, 1)]_vars

\* d1 was upserted twice in one run, with different names and replicas, while d2
\* was stored before: the table holds one row for each, d1 with the later values
C22_Witness ==
    /\ ~NoListing(listed)
    /\ Len(listed.items) = 2
    /\ StoredId(listed.items[1]) = "d1" /\ StoredId(listed.items[2]) = "d1"
    /\ ExpectedRow(listed.items[1]) # ExpectedRow(listed.items[2])
    /\ Len(deployments) = 2
    /\ deployments[1] = ExpectedRow(listed.items[2])
    /\ deployments[2].deployment_id = "d2"

\* C23: for every action type, deployment id and details, if the ledger holds at
\* least max_actions_per_day records of the type within the trailing 24 hours,
\* counted back from the current time and across midnight, validate_action denies,
\* also when the count of the trailing hour is below max_actions_per_hour.
C23_DailyCeilingDenies ==
    \A t \in QueryTypes, d \in QueryDeployments, det \in QueryDetails :
        Cardinality(RecordsWithin(t, Day)) >= settings.max_actions_per_day
            => IsDenial(validate_action(t, d, det))

\* two scale records of the previous calendar day lie within the trailing 24 hours,
\* none within the trailing hour, the daily ceiling is 2 and the hourly one 3, no
\* cooldown is stored, and a well-formed scale action is denied
C23_Witness ==
    /\ settings.max_actions_per_day = 2
    /\ settings.max_actions_per_hour = 3
    /\ now >= Day
    /\ Cardinality(RecordsWithin("scale", Day)) = 2
    /\ \A i \in RecordsWithin("scale", Day) : fromisoformat(ledger[i].timestamp) < Day
    /\ RecordsWithin("scale", Hour) = {}
    /\ cooldowns = <<>>
    /\ IsDenial(validate_action("scale", "d1", AcceptableDetails))

\* reasons that name the window exceeded, the current count and the ceiling
HourlyReason ==
    "Hourly rate limit exceeded for {action_type}: {count_hour}/{max_actions_per_hour}"
DailyReason ==
    "Daily rate limit exceeded for {action_type}: {count_day}/{max_actions_per_day}"

\* C24: when validate_action denies because of a rate limit, the reason it returns
\* names the window that was exceeded, hourly or daily, with the current count and
\* the ceiling.
C24_RateLimitReasonNamesWindow ==
    \A t \in QueryTypes, d \in QueryDeployments, det \in QueryDetails :
        LET v == validate_action(t, d, det) IN
        /\ Cardinality(RecordsWithin(t, Hour)) >= settings.max_actions_per_hour
            => (IsDenial(v) /\ v.reason = HourlyReason)
        /\ (/\ Cardinality(RecordsWithin(t, Hour)) < settings.max_actions_per_hour
            /\ Cardinality(RecordsWithin(t, Day)) >= settings.max_actions_per_day)
            => (IsDenial(v) /\ v.reason = DailyReason)

\* the action _execute_action is handling
CurrentAction == Head(actions)

\* validate_action for the action in progress
CurrentVerdict ==
    validate_action(CurrentAction.type.s, Column(CurrentAction.deployment_id),
                    CurrentAction.details)

\* C25: when validate_action denies an action, the loop makes no external call for
\* it, sets its record to blocked with the denial reason as the error, and goes on
\* to the next action of the plan when there is one.
C25_DeniedIsBlockedAndLoopContinues ==
    [][/\ (pc = "validate" /\ dbOpen /\ pc' # pc /\ IsDenial(CurrentVerdict))
            => /\ pc' = "update_blocked"
               /\ verdict' = CurrentVerdict
               /\ calls' = calls
               /\ ledger' = ledger
       /\ (pc = "update_blocked" /\ dbOpen /\ pc' # pc)
            => /\ IsDenial(verdict)
               /\ ledger'[cur].status = "blocked"
               /\ ledger'[cur].error = verdict.reason
               /\ \A i \in 1..Len(ledger) : i # cur => ledger'[i] = ledger[i]
               /\ \A c \in 1..Len(calls') : calls'[c].id # cur
               /\ cooldowns' = cooldowns
               /\ IF Len(actions) > 1
                  THEN pc' = "log_action" /\ actions' = Tail(actions)
                  ELSE pc' = "sleep"]_vars

\* one plan of two actions: the first was denied and is blocked without a call, the
\* second was processed after it, called and completed
C25_Witness ==
    /\ iter.entries = 2 /\ iter.ledger0 = 0
    /\ Len(ledger) = 2
    /\ ledger[1].status = "blocked"
    /\ ledger[1].error = "Replica count too high: {new_count} (max: 10)"
    /\ ledger[2].status = "completed"
    /\ Len(calls) = 1 /\ calls[1].id = 2

\* C26: audit before act: an external action call is made for an action only when a
\* pending record of that action, appended in the same iteration, is in the ledger
\* and validate_action has returned allowed for it; every call made carries the id
\* of a record of its own, of its action type.
C26_AuditBeforeAct ==
    [][/\ calls' # calls =>
            /\ Len(calls') = Len(calls) + 1
            /\ calls'[Len(calls')].id = cur
            /\ cur > iter.ledger0 /\ cur <= Len(ledger)
            /\ ledger[cur].status = "pending"
            /\ ledger[cur].action_type = CurrentAction.type.s
            /\ ledger[cur].action_type \in {"scale", "redeploy"}
            /\ ledger[cur].deployment_id = Column(CurrentAction.deployment_id)
            /\ calls'[Len(calls')].action_type = ledger[cur].action_type
            /\ CurrentVerdict = Allowed
            /\ ledger' = ledger
       /\ \A c \in 1..Len(calls') :
            /\ calls'[c].id \in 1..Len(ledger')
            /\ ledger'[calls'[c].id].action_type = calls'[c].action_type
            /\ fromisoformat(ledger'[calls'[c].id].timestamp) <= calls'[c].time
            /\ \A e \in 1..Len(calls') : calls'[e].id = calls'[c].id => e = c]_vars

\* two calls were made in one iteration, each for a record of its own
C26_Witness ==
    /\ Len(calls) = 2
    /\ iter.ledger0 = 0 /\ iter.entries = 2
    /\ calls[1].id = 1 /\ calls[2].id = 2
    /\ calls[1].action_type = "scale" /\ calls[2].action_type = "redeploy"

\* C27: when get_decision returns None (a transport error or a payload it cannot
\* use), the iteration ends there: no action is queued or in progress, and the
\* ledger, the external calls and the cooldown rows written are as many as when the
\* iteration began.
C27_NoResponseEndsIteration ==
    iter.noResponse =>
        /\ pc \in {"sleep", "exited"}
        /\ actions = <<>>
        /\ cur = 0
        /\ Len(ledger) = iter.ledger0
        /\ Len(calls) = iter.calls0
        /\ Len(applied) = iter.applied0

\* the recommender failed in an iteration that began with a record in the ledger
\* and a cooldown stored, and the loop sleeps
C27_Witness ==
    /\ iter.noResponse
    /\ ~iter.malformed
    /\ pc = "sleep"
    /\ iter.ledger0 > 0
    /\ cooldowns # <<>>

\* C28: whenever the recommender returns a parsed document that is not a mapping
\* holding a list under actions (the empty mapping and an empty list included), the
\* iteration appends one validation_failed record.
C28_MalformedDocumentIsRecorded ==
    (iter.malformed /\ pc = "sleep") =>
        /\ Len(ledger) = iter.ledger0 + 1
        /\ ledger[Len(ledger)].action_type = "validation_failed"
        /\ ledger[Len(ledger)].status = "failed"

\* C29: when list_deployments returns None the iteration is not aborted: the fetch
\* step leaves the snapshot table unchanged, takes the snapshots stored as the
\* current deployments, and the iteration goes on to ask the recommender for a plan.
C29_FetchFailureFallsBackToStore ==
    [][(pc = "fetch" /\ pc' # pc /\ iter'.fetchFailed) =>
            /\ deployments' = deployments
            /\ iter'.current = deployments
            /\ pc' = "decide"
            /\ ledger' = ledger]_vars

\* the fetch failed in an iteration that found a snapshot stored by an earlier one,
\* and the recommender is being asked
C29_Witness ==
    /\ iter.fetchFailed
    /\ pc = "decide"
    /\ deployments # <<>>
    /\ iter.current = deployments

\* how the new_count of scale details fails, "none" when it is an integer in 0..10
ScaleFailure(det) ==
    IF "new_count" \notin DOMAIN det THEN "missing"
    ELSE IF det.new_count.k = "null" THEN "missing"
    ELSE IF det.new_count.k # "int" THEN "not a number"
    ELSE IF det.new_count.n < 0 THEN "negative"
    ELSE IF det.new_count.n > 10 THEN "too high"
    ELSE "none"

\* a scale action on d passes the rate limits and the cooldown check
ScalePassesLimits(d) == _check_rate_limits("scale") /\ ~check_cooldown("scale", d)

\* the reasons validate_action gives for scale details that fail in the way `failure`
ReasonsGiven(d, failure) ==
    {validate_action("scale", d, det).reason :
        det \in {x \in QueryDetails : ScaleFailure(x) = failure}}

\* C30: for a scale action that passes the rate limits and the cooldown check,
\* validate_action allows exactly when new_count is present and 0 <= new_count <= 10
\* (0 and 10 allowed, 11 denied), and denies a missing, a negative and a too high
\* new_count each with a reason of its own.
C30_ScaleBounds ==
    \A d \in QueryDeployments :
        ScalePassesLimits(d) =>
            /\ \A det \in QueryDetails :
                /\ (validate_action("scale", d, det) = Allowed)
                        <=> (ScaleFailure(det) = "none")
                /\ ScaleFailure(det) \in {"missing", "negative", "too high"}
                        => IsDenial(validate_action("scale", d, det))
            /\ ReasonsGiven(d, "missing") \cap ReasonsGiven(d, "negative") = {}
            /\ ReasonsGiven(d, "missing") \cap ReasonsGiven(d, "too high") = {}
            /\ ReasonsGiven(d, "negative") \cap ReasonsGiven(d, "too high") = {}

\* with a redeploy on record and a scale cooldown on d2, a scale of d1 to 0 or to 10
\* replicas is allowed and one to 11 or to -1 is denied
C30_Witness ==
    /\ ledger # <<>>
    /\ cooldowns # <<>>
    /\ ScalePassesLimits("d1")
    /\ check_cooldown("scale", "d2")
    /\ validate_action("scale", "d1", [new_count |-> JInt(0), reason |-> DEFAULT_REASON])
            = Allowed
    /\ validate_action("scale", "d1", [new_count |-> JInt(10), reason |-> DEFAULT_REASON])
            = Allowed
    /\ IsDenial(validate_action("scale", "d1",
                                [new_count |-> JInt(11), reason |-> DEFAULT_REASON]))
    /\ IsDenial(validate_action("scale", "d1",
                                [new_count |-> JInt(-1), reason |-> DEFAULT_REASON]))

\* a redeploy of d passes the rate limits and the cooldown check
RedeployPassesLimits(d) ==
    _check_rate_limits("redeploy") /\ ~check_cooldown("redeploy", d)

\* the details a redeploy is asked with: none, or a reason alone
RedeployDetails == {<<>>, [reason |-> DEFAULT_REASON]}

\* C31: for a redeploy that passes the rate limits and the cooldown check,
\* validate_action denies when the deployment id is absent and allows whenever it
\* is present, also when the store holds no snapshot of that deployment; the step
\* of the loop that runs the check leaves the store as it is.
C31_RedeployNeedsOnlyAnId ==
    [][/\ \A d \in QueryDeployments, det \in RedeployDetails :
            RedeployPassesLimits(d)' =>
                IF d \in {None, ""}
                THEN validate_action("redeploy", d, det)'
                        = Denied("Redeploy action requires deployment_id")
                ELSE validate_action("redeploy", d, det)' = Allowed
       /\ (pc = "validate" /\ dbOpen /\ pc' # pc) =>
            /\ ledger' = ledger
            /\ cooldowns' = cooldowns
            /\ deployments' = deployments]_vars

\* a redeploy of d1 was allowed and called while the store holds no snapshot at all
C31_Witness ==
    /\ pc = "update_final"
    /\ CurrentAction.type.s = "redeploy"
    /\ CurrentAction.deployment_id = JStr("d1")
    /\ deployments = <<>>
    /\ verdict = Allowed
    /\ Len(calls) > 0 /\ calls[Len(calls)].id = cur

\* C32: whenever the execution of an allowed action does not succeed (the external
\* call raises, or the deployment cannot be retrieved and the executor returns
\* false), the action's record ends with status failed and a non-empty error
\* message.
C32_FailedExecutionHasError ==
    \A j \in 1..Len(calls) :
        LET record == ledger[calls[j].id] IN
        record.status = "failed" => record.error \notin {None, ""}

\* the answer of the cooldown check for (t, d) on the cooldowns as apply_cooldown
\* wrote them, none ever deleted
CheckWithoutCleanup(t, d) ==
    \E k \in 1..Len(applied) :
        /\ applied[k].action_type = t
        /\ (Given(d) => applied[k].deployment_id = d)
        /\ now < applied[k].expires

\* the cooldown rows that have not expired, in the table's order
StillActive == SelectSeq(cooldowns, LAMBDA row : fromisoformat(row.expires_at) > now)

\* C33: pruning is not needed for correctness: for every (action_type,
\* deployment_id) and at every time check_cooldown answers as it would had no
\* cleanup ever run, and a cleanup deletes exactly the rows with expires_at <= now,
\* never a row that is still active, leaving every check's answer as it was.
C33_CleanupIsNotNeeded ==
    [][/\ \A t \in QueryTypes, d \in QueryDeployments :
            check_cooldown(t, d)' = CheckWithoutCleanup(t, d)'
       /\ (applied' = applied /\ now' = now) =>
            /\ cooldowns' = StillActive
            /\ \A t \in QueryTypes, d \in QueryDeployments :
                    check_cooldown(t, d)' = check_cooldown(t, d)]_vars

\* a cleanup has deleted an expired row and kept an active one, whose check denies
C33_Witness ==
    /\ Len(applied) = 2
    /\ Len(cooldowns) = 1
    /\ applied[1].expires <= now
    /\ applied[2].expires > now
    /\ check_cooldown(applied[2].action_type, applied[2].deployment_id)
    /\ ~check_cooldown(applied[1].action_type, applied[1].deployment_id)

\* C34: iterations never overlap and the actions of an iteration run one after
\* another: a record's status is only ever changed on the record appended last,
\* the one action in progress; a record is appended only when no action is in
\* progress and every record of the iteration so far is terminal; and the counts
\* validate_action reads for an action cover every record appended before it.
C34_OneActionAtATime ==
    [][/\ \A i \in 1..Len(ledger) :
            ledger'[i].status # ledger[i].status =>
                /\ ledger[i].status = "pending"
                /\ i = cur /\ i = Len(ledger)
                /\ Len(ledger') = Len(ledger)
       /\ Len(ledger') > Len(ledger) =>
            /\ cur = 0
            /\ Len(ledger') = Len(ledger) + 1
            /\ \A i \in (iter.ledger0 + 1)..Len(ledger) : Terminal(ledger[i].status)
       /\ pc' = "validate" =>
            /\ cur' = Len(ledger')
            /\ \A t \in QueryTypes, window \in {Hour, Day} :
                    count_actions_since(now - window, t)'
                        = Cardinality(RecordsWithin(t, window))']_vars

\* the second action of an iteration is about to be validated: the first one's
\* record is terminal and the hourly count of its type is two
C34_Witness ==
    /\ pc = "validate"
    /\ cur = 2
    /\ iter.ledger0 = 0
    /\ Terminal(ledger[1].status)
    /\ ledger[1].action_type = ledger[2].action_type
    /\ ledger[2].status = "pending"
    /\ count_actions_since(now - Hour, ledger[2].action_type) = 2

\* C35: after the stop signal the loop starts no new iteration and run_loop
\* eventually ends; a cancellation delivered during the sleep between iterations
\* ends the loop at once, the clock not having moved.
C35_StopEndsTheLoop ==
    /\ [][/\ stop = "shutdown" => ~(pc' = "cleanup" /\ pc # "cleanup")
          /\ (stop = "shutdown" /\ pc \in {"sleep", "sleep_err"} /\ pc' # pc) =>
                pc' = "exited" /\ now' = now /\ ledger' = ledger]_vars
    /\ (stop = "shutdown") ~> (pc = "exited")

\* the loop was stopped in its sleep after an iteration that wrote a record, and
\* has ended
C35_Witness ==
    /\ stop = "shutdown"
    /\ pc = "exited"
    /\ ~running
    /\ ledger # <<>>
    /\ \A i \in 1..Len(ledger) : ledger[i].status # "pending"

\* the verdict of a rate limit that was reached
RateLimited == Denied("Rate limit exceeded for {action_type}")

\* C36: the count validate_action uses covers every ledger record of the action
\* type in the window whatever its status, blocked, failed and pending records
\* included, the pending record of the very action being checked among them; a
\* type whose records of any status fill a window is denied, and a denied action's
\* record goes on counting once it is blocked.
C36_EveryRecordCounts ==
    [][/\ \A t \in QueryTypes, window \in {Hour, Day} :
            count_actions_since(now - window, t)' = Cardinality(RecordsWithin(t, window))'
       /\ \A t \in QueryTypes :
            (\/ Cardinality(RecordsWithin(t, Hour))' >= settings.max_actions_per_hour
             \/ Cardinality(RecordsWithin(t, Day))' >= settings.max_actions_per_day)
                => validate_action(t, "d1", AcceptableDetails)' = RateLimited
       /\ pc' = "validate" =>
            /\ ledger'[cur'].status = "pending"
            /\ \E t \in QueryTypes :
                    ledger'[cur'].action_type = t /\ cur' \in RecordsWithin(t, Day)'
       /\ (pc = "update_blocked" /\ ledger' # ledger) =>
            /\ ledger'[cur].status = "blocked"
            /\ \A t \in QueryTypes, window \in {Hour, Day} :
                    RecordsWithin(t, window)' = RecordsWithin(t, window)]_vars

\* with an hourly ceiling of two, an action is denied for the rate limit by a
\* failed record and its own pending record, no action having completed
C36_Witness ==
    /\ pc = "update_blocked"
    /\ settings.max_actions_per_hour = 2
    /\ cur = 2
    /\ ledger[1].status = "failed"
    /\ ledger[2].status = "pending"
    /\ ledger[1].action_type = ledger[2].action_type
    /\ verdict = RateLimited

\* the verdict of an action in its cooldown period
CoolingDown == Denied("Action {action_type} is in cooldown period")

\* C37: a cooldown check with the deployment id omitted (None or empty) matches
\* every unexpired cooldown row of the action type: while a cooldown applied for
\* (T, A) is active, the check for T without a deployment id answers true and
\* validate_action(T, no deployment id) denies.
C37_OmittedIdMatchesEveryRow ==
    \A k \in 1..Len(applied) :
        (Given(applied[k].deployment_id) /\ now < applied[k].expires) =>
            \A d \in {None, ""} :
                /\ check_cooldown(applied[k].action_type, d)
                /\ \A det \in QueryDetails :
                        validate_action(applied[k].action_type, d, det) = CoolingDown

\* the only cooldown applied is one for (scale, d1), it is active, and a scale
\* without a deployment id is denied while a scale of d2 is not
C37_Witness ==
    /\ Len(applied) = 1
    /\ applied[1].action_type = "scale"
    /\ applied[1].deployment_id = "d1"
    /\ now < applied[1].expires
    /\ validate_action("scale", None, AcceptableDetails) = CoolingDown
    /\ validate_action("scale", "d2", AcceptableDetails) = Allowed

\* the rows of the cooldown table for exactly the pair (t, d) that have not expired
UnexpiredRows(t, d) ==
    {i \in 1..Len(cooldowns) :
        /\ cooldowns[i].action_type = t
        /\ cooldowns[i].deployment_id = d
        /\ fromisoformat(cooldowns[i].expires_at) > now}

\* C38: in every state the single loop reaches, each pair of an action type and a
\* non-null deployment id has at most one unexpired cooldown row, and at most one
\* of the cooldowns the loop applied for it is active.
C38_OneActiveCooldownPerPair ==
    \A t \in QueryTypes, d \in {"", "d1", "d2"} :
        /\ Cardinality(UnexpiredRows(t, d)) <= 1
        /\ Cardinality(ActiveFor(t, d)) <= 1

\* the loop has applied two cooldowns for one pair, the first has expired and the
\* second is active
C38_Witness ==
    /\ Len(applied) = 2
    /\ applied[1].action_type = applied[2].action_type
    /\ applied[1].deployment_id = "d1"
    /\ applied[2].deployment_id = "d1"
    /\ applied[1].expires <= now
    /\ now < applied[2].expires
    /\ Cardinality(UnexpiredRows(applied[2].action_type, "d1")) = 1

\* the awaits of _execute_loop_iteration
IterationPcs == {"cleanup", "fetch", "decide", "log_invalid", "log_action", "validate",
                 "update_blocked", "update_final", "cooldown"}

\* C39: loop_count as get_status reports it counts the iterations that returned
\* without raising: a step by which an iteration returns, also one that ends early
\* on a missing or invalid plan, adds exactly one and sets last_loop_time to the
\* time of the return; every other step, one by which an iteration raises among
\* them, leaves loop_count and last_loop_time as they were; last_loop_time is null
\* exactly as long as the count is zero.
C39_LoopCountCountsReturns ==
    [][/\ IF pc \in IterationPcs /\ pc' = "sleep"
          THEN /\ get_status'.loop_count = get_status.loop_count + 1
               /\ get_status'.last_loop_time = JStr(isoformat(now))
          ELSE /\ get_status'.loop_count = get_status.loop_count
               /\ get_status'.last_loop_time = get_status.last_loop_time
       /\ (pc \in IterationPcs /\ pc' \in {"sleep_err", "exited"}) =>
            UNCHANGED <<loop_count, last_loop_time>>
       /\ (get_status'.loop_count = 0) = (get_status'.last_loop_time = JNull)]_vars

\* an iteration that ended on a rejected plan was counted, and a later iteration
\* that raised was not: the count is one and last_loop_time is that of the first
C39_Witness ==
    /\ pc = "sleep_err"
    /\ get_status.loop_count = 1
    /\ Len(ledger) = 1
    /\ ledger[1].action_type = "validation_failed"
    /\ get_status.last_loop_time = JStr(ledger[1].timestamp)
    /\ last_loop_time.t < now

=============================================================================
